---- MODULE Spec2Model ----
(***************************************************************************)
(* The stacks service of bodhi (bodhi/services/stacks.py): save_stack,     *)
(* delete_stack and the pagination of query_stacks.                        *)
(*                                                                         *)
(* A request is handled by a worker, one statement group at a time; the    *)
(* database is the set of Stack rows.  Spec runs one worker (one request   *)
(* at a time), ConcSpec runs two workers whose save requests interleave at *)
(* the database calls, PageSpec applies the pagination of query_stacks to  *)
(* result lists of every length up to MaxTotal.                            *)
(*                                                                         *)
(* Requests reach the handlers only after the route's ACL admitted the     *)
(* caller, so every acting user below is a packager.                       *)
(***************************************************************************)
EXTENDS Integers, Sequences, FiniteSets, TLC

VARIABLES db, req, outbox, matching, listing

vars == <<db, req, outbox, matching, listing>>

(* ------------------------------ universe ------------------------------ *)

Names == {"n1", "n2"}
Users == {"alice", "bob"}
Groups == {"g1"}
Packages == {"p1"}
Descriptions == {"", "d1"}

\* user.groups: the directory's group memberships of each user.
UserGroups == [alice |-> {"g1"}, bob |-> {}]

MaxRows == 3
MaxTotal == 26
MaxPage == 4
MaxRowsPerPage == 10

RowIds == 1..MaxRows

SeqWorkers == {"w1"}
Workers == {"w1", "w2"}

\* Stack.description of a stack whose description was never set (None).
NoDescription == "<none>"

\* The value of a `stack` variable that holds None.
NoStack ==
    [id |-> 0, name |-> "", description |-> NoDescription,
     packages |-> {}, users |-> {}, groups |-> {}]

\* request.validated of a save: description and the three desired sets.
SaveData ==
    [description : Descriptions, packages : SUBSET Packages,
     users : SUBSET Users, groups : SUBSET Groups]

NoData == [description |-> "", packages |-> {}, users |-> {}, groups |-> {}]

NoSets == [packages |-> {}, users |-> {}, groups |-> {}]

Idle ==
    [pc |-> "idle", op |-> "none", name |-> "", user |-> "", stack |-> 0,
     created |-> FALSE, data |-> NoData, status |-> "none",
     before |-> NoStack, repeat |-> FALSE, first |-> NoSets]

(* ------------------------------ database ------------------------------ *)

RowsNamed(rows, name) == {r \in rows : r.name = name}

\* Stack.get(name, db): the first row of that name, or None (id 0).
StackGet(rows, name) ==
    IF RowsNamed(rows, name) = {} THEN 0
    ELSE CHOOSE i \in RowIds :
            /\ \E r \in RowsNamed(rows, name) : r.id = i
            /\ \A r \in RowsNamed(rows, name) : i <= r.id

\* The row a `stack` reference points at.
Row(rows, id) ==
    IF \E r \in rows : r.id = id THEN CHOOSE r \in rows : r.id = id ELSE NoStack

Lookup(rows, name) == Row(rows, StackGet(rows, name))

\* The unique constraint on Stack.name, checked when a row is flushed.
UniqueViolation(rows, name) == RowsNamed(rows, name) # {}

\* Row ids neither stored nor referenced by a request in flight.
FreeIds == RowIds \ ({r.id : r \in db} \cup {req[w].stack : w \in Workers})

\* Stack(name=data['name'], users=[user])
NewStack(id, name, user) ==
    [id |-> id, name |-> name, description |-> NoDescription,
     packages |-> {}, users |-> {user}, groups |-> {}]

(* ------------------------------ save_stack ---------------------------- *)

\* The ownership check of save_stack: TRUE when the request may proceed.
SaveAuthorizedNoGroups(stack, user) ==
    IF stack.users # {} \/ stack.groups # {}
    THEN user \in stack.users
    ELSE TRUE

SaveAuthorized(stack, user) ==
    IF stack.users # {} \/ stack.groups # {}
    THEN IF user \in stack.users
         THEN TRUE
         ELSE \E group \in UserGroups[user] : group \in stack.groups
    ELSE TRUE

\* Stack.update_relationship: reconcile the relationship with the desired set.
update_relationship(rel, items) ==
    LET toAdd == items \ rel
        toRemove == rel \ items
    IN  (rel \cup toAdd) \ toRemove

Sets(stack) ==
    [packages |-> stack.packages, users |-> stack.users, groups |-> stack.groups]

Event(topic, stack) == [topic |-> topic, stack |-> stack]

BeginSave(w) ==
    /\ req[w].pc \in {"idle", "done"}
    /\ \E name \in Names, user \in Users :
         req' = [req EXCEPT ![w] =
                   [Idle EXCEPT !.pc = "fetch", !.op = "save", !.name = name,
                                !.user = user, !.status = "pending",
                                !.before = Lookup(db, name)]]
    /\ outbox' = [outbox EXCEPT ![w] = <<>>]
    /\ UNCHANGED <<db, matching, listing>>

\* The client sends the save it has just been answered for once more.
SaveAgain(w) ==
    /\ req[w].pc = "done"
    /\ req[w].op = "save"
    /\ req[w].status = "ok"
    /\ ~req[w].repeat
    /\ req' = [req EXCEPT ![w] =
                 [@ EXCEPT !.pc = "fetch", !.stack = 0, !.created = FALSE,
                           !.status = "pending",
                           !.before = Lookup(db, req[w].name),
                           !.repeat = TRUE,
                           !.first = Sets(Lookup(db, req[w].name))]]
    /\ outbox' = [outbox EXCEPT ![w] = <<>>]
    /\ UNCHANGED <<db, matching, listing>>

SaveFetch(w) ==
    /\ req[w].pc = "fetch"
    /\ LET id == StackGet(db, req[w].name)
       IN  req' = [req EXCEPT ![w].stack = id,
                              ![w].pc = IF id = 0 THEN "create" ELSE "authorize"]
    /\ UNCHANGED <<db, outbox, matching, listing>>

SaveCreateNoFlush(w) ==
    /\ req[w].pc = "create"
    /\ FreeIds # {}
    /\ LET id == CHOOSE i \in FreeIds : \A j \in FreeIds : i <= j
       IN  /\ db' = db \cup {NewStack(id, req[w].name, req[w].user)}
           /\ req' = [req EXCEPT ![w].stack = id, ![w].created = TRUE,
                                 ![w].pc = "authorize"]
    /\ UNCHANGED <<outbox, matching, listing>>

SaveCreateNoOwner(w) ==
    /\ req[w].pc = "create"
    /\ FreeIds # {}
    /\ IF UniqueViolation(db, req[w].name)
       THEN /\ req' = [req EXCEPT ![w].pc = "done", ![w].status = "error"]
            /\ UNCHANGED db
       ELSE LET id == CHOOSE i \in FreeIds : \A j \in FreeIds : i <= j
            IN  /\ db' = db \cup {[NewStack(id, req[w].name, req[w].user)
                                     EXCEPT !.users = {}]}
                /\ req' = [req EXCEPT ![w].stack = id, ![w].created = TRUE,
                                      ![w].pc = "authorize"]
    /\ UNCHANGED <<outbox, matching, listing>>

\* if not stack: stack = Stack(...); db.add(stack); db.flush()
SaveCreate(w) ==
    /\ req[w].pc = "create"
    /\ FreeIds # {}
    /\ IF UniqueViolation(db, req[w].name)
       THEN /\ req' = [req EXCEPT ![w].pc = "done", ![w].status = "error"]
            /\ UNCHANGED db
       ELSE LET id == CHOOSE i \in FreeIds : \A j \in FreeIds : i <= j
            IN  /\ db' = db \cup {NewStack(id, req[w].name, req[w].user)}
                /\ req' = [req EXCEPT ![w].stack = id, ![w].created = TRUE,
                                      ![w].pc = "authorize"]
    /\ UNCHANGED <<outbox, matching, listing>>

SaveAuthorizeAfterUsers(w) ==
    /\ req[w].pc = "authorize"
    /\ LET stack == Row(db, req[w].stack)
       IN  IF SaveAuthorized(stack, req[w].user)
           THEN /\ req' = [req EXCEPT ![w].pc = "update"]
                /\ UNCHANGED db
           ELSE /\ req' = [req EXCEPT ![w].pc = "done",
                                      ![w].status = "forbidden"]
                /\ \E users \in SUBSET Users :
                     db' = (db \ {stack}) \cup {[stack EXCEPT !.users = users]}
    /\ UNCHANGED <<outbox, matching, listing>>

SaveAuthorize(w) ==
    /\ req[w].pc = "authorize"
    /\ LET stack == Row(db, req[w].stack)
       IN  IF SaveAuthorized(stack, req[w].user)
           THEN req' = [req EXCEPT ![w].pc = "update"]
           ELSE req' = [req EXCEPT ![w].pc = "done", ![w].status = "forbidden"]
    /\ UNCHANGED <<db, outbox, matching, listing>>

\* The request's data: read here, or the data of the request being repeated.
DataOf(w) == IF req[w].repeat THEN {req[w].data} ELSE SaveData

SaveUpdateNoGroups(w) ==
    /\ req[w].pc = "update"
    /\ \E data \in DataOf(w) :
         LET stack == Row(db, req[w].stack)
             saved == [stack EXCEPT
                         !.description = IF data.description # ""
                                         THEN data.description ELSE @,
                         !.packages = update_relationship(@, data.packages),
                         !.users = update_relationship(@, data.users)]
         IN  /\ db' = (db \ {stack}) \cup {saved}
             /\ outbox' = [outbox EXCEPT
                             ![w] = Append(@, Event("stack.save", saved))]
             /\ req' = [req EXCEPT ![w].pc = "done", ![w].status = "ok",
                                   ![w].data = data]
    /\ UNCHANGED <<matching, listing>>

SaveUpdateNewOnly(w) ==
    /\ req[w].pc = "update"
    /\ \E data \in DataOf(w) :
         LET stack == Row(db, req[w].stack)
             saved == [stack EXCEPT
                         !.description = IF data.description # ""
                                         THEN data.description ELSE @,
                         !.packages = update_relationship(@, data.packages),
                         !.users = data.users \ @,
                         !.groups = update_relationship(@, data.groups)]
         IN  /\ db' = (db \ {stack}) \cup {saved}
             /\ outbox' = [outbox EXCEPT
                             ![w] = Append(@, Event("stack.save", saved))]
             /\ req' = [req EXCEPT ![w].pc = "done", ![w].status = "ok",
                                   ![w].data = data]
    /\ UNCHANGED <<matching, listing>>

\* description, the three update_relationship calls, publish, return.
SaveUpdate(w) ==
    /\ req[w].pc = "update"
    /\ \E data \in DataOf(w) :
         LET stack == Row(db, req[w].stack)
             saved == [stack EXCEPT
                         !.description = IF data.description # ""
                                         THEN data.description ELSE @,
                         !.packages = update_relationship(@, data.packages),
                         !.users = update_relationship(@, data.users),
                         !.groups = update_relationship(@, data.groups)]
         IN  /\ db' = (db \ {stack}) \cup {saved}
             /\ outbox' = [outbox EXCEPT
                             ![w] = Append(@, Event("stack.save", saved))]
             /\ req' = [req EXCEPT ![w].pc = "done", ![w].status = "ok",
                                   ![w].data = data]
    /\ UNCHANGED <<matching, listing>>

(* ------------------------------ delete_stack -------------------------- *)

BeginDelete(w) ==
    /\ req[w].pc \in {"idle", "done"}
    /\ \E name \in Names, user \in Users :
         req' = [req EXCEPT ![w] =
                   [Idle EXCEPT !.pc = "validate", !.op = "delete",
                                !.name = name, !.user = user,
                                !.status = "pending",
                                !.before = Lookup(db, name)]]
    /\ outbox' = [outbox EXCEPT ![w] = <<>>]
    /\ UNCHANGED <<db, matching, listing>>

\* validate_stack: resolve the path's name into a Stack, 404 when missing.
DeleteValidate(w) ==
    /\ req[w].pc = "validate"
    /\ LET id == StackGet(db, req[w].name)
       IN  req' = [req EXCEPT
                     ![w].stack = id,
                     ![w].pc = IF id = 0 THEN "done" ELSE "publish",
                     ![w].status = IF id = 0 THEN "notfound" ELSE @]
    /\ UNCHANGED <<db, outbox, matching, listing>>

DeletePublishAfterRemove(w) ==
    /\ req[w].pc = "publish"
    /\ db' = db \ {Row(db, req[w].stack)}
    /\ outbox' = [outbox EXCEPT
                    ![w] = Append(@, Event("stack.delete",
                                           Row(db', req[w].stack)))]
    /\ req' = [req EXCEPT ![w].pc = "remove"]
    /\ UNCHANGED <<matching, listing>>

\* notifications.publish(topic='stack.delete', msg=dict(stack=stack))
DeletePublish(w) ==
    /\ req[w].pc = "publish"
    /\ outbox' = [outbox EXCEPT
                    ![w] = Append(@, Event("stack.delete",
                                           Row(db, req[w].stack)))]
    /\ req' = [req EXCEPT ![w].pc = "remove"]
    /\ UNCHANGED <<db, matching, listing>>

\* request.db.delete(stack); return dict(status=u'success')
DeleteRemove(w) ==
    /\ req[w].pc = "remove"
    /\ db' = db \ {Row(db, req[w].stack)}
    /\ req' = [req EXCEPT ![w].pc = "done", ![w].status = "ok"]
    /\ UNCHANGED <<outbox, matching, listing>>

(* ------------------------------ query_stacks -------------------------- *)

Min(a, b) == IF a <= b THEN a ELSE b

FloorPages(total, rows_per_page) == total \div rows_per_page

\* int(math.ceil(total / float(rows_per_page)))
Pages(total, rows_per_page) ==
    IF total % rows_per_page = 0
    THEN total \div rows_per_page
    ELSE total \div rows_per_page + 1

\* query.offset(n)
Offset(rows, n) == SubSeq(rows, n + 1, Len(rows))

\* query.limit(n)
Limit(rows, n) == SubSeq(rows, 1, Min(n, Len(rows)))

NoListing ==
    [queried |-> FALSE, stacks |-> <<>>, page |-> 0, pages |-> 0,
     rows_per_page |-> 0, total |-> 0,
     asked |-> [page |-> 0, rows_per_page |-> 0]]

\* total, pages, offset/limit and the returned dict of query_stacks.
Paginate(query, page, rows_per_page) ==
    LET total == Len(query)
        pages == Pages(total, rows_per_page)
    IN  [queried |-> TRUE,
         stacks |-> Limit(Offset(query, rows_per_page * (page - 1)),
                          rows_per_page),
         page |-> page, pages |-> pages, rows_per_page |-> rows_per_page,
         total |-> total,
         asked |-> [page |-> page, rows_per_page |-> rows_per_page]]

QueryStacks ==
    /\ \E page \in 1..MaxPage, rows_per_page \in 1..MaxRowsPerPage :
         listing' = Paginate(matching, page, rows_per_page)
    /\ UNCHANGED <<db, req, outbox, matching>>

(* ------------------------------ specifications ------------------------ *)

Init ==
    /\ db = {}
    /\ req = [w \in Workers |-> Idle]
    /\ outbox = [w \in Workers |-> <<>>]
    /\ matching = <<>>
    /\ listing = NoListing

Next ==
    \E w \in SeqWorkers :
        \/ BeginSave(w)
        \/ SaveAgain(w)
        \/ SaveFetch(w)
        \/ SaveCreate(w)
        \/ SaveAuthorize(w)
        \/ SaveUpdate(w)
        \/ BeginDelete(w)
        \/ DeleteValidate(w)
        \/ DeletePublish(w)
        \/ DeleteRemove(w)

Spec == Init /\ [][Next]_vars

\* Two workers, one save request each, interleaved at the database calls.
ConcNext ==
    \E w \in Workers :
        \/ req[w].pc = "idle" /\ BeginSave(w)
        \/ SaveFetch(w)
        \/ SaveCreate(w)
        \/ SaveAuthorize(w)
        \/ SaveUpdate(w)

ConcSpec == Init /\ [][ConcNext]_vars

\* The filtered, ordered query of query_stacks: any list of up to MaxTotal rows.
PageInit ==
    /\ db = {}
    /\ req = [w \in Workers |-> Idle]
    /\ outbox = [w \in Workers |-> <<>>]
    /\ matching \in {[i \in 1..n |-> i] : n \in 0..MaxTotal}
    /\ listing = NoListing

PageNext == QueryStacks

PageSpec == PageInit /\ [][PageNext]_vars

(* ------------------------------ properties ---------------------------- *)

SaveDone(w) == req[w].pc = "done" /\ req[w].op = "save"

DeleteDone(w) == req[w].pc = "done" /\ req[w].op = "delete"

\* The stack of w's request as it is stored now.
Stored(w) == Lookup(db, req[w].name)

\* Owner: listed on the stack, or member of a group listed on the stack.
IsOwner(stack, user) ==
    user \in stack.users \/ UserGroups[user] \cap stack.groups # {}

Unowned(stack) == stack.users = {} /\ stack.groups = {}

\* C1: the authorization check of save_stack passes exactly when the stack,
\* as it is after fetch-or-create, has neither users nor groups, or the
\* acting user is in its users, or one of the acting user's groups is in its
\* groups; otherwise the save ends Forbidden.  A save of a stack without
\* users and groups succeeds for every acting user.
C1_AuthorizationPolicy ==
    \A w \in Workers :
        /\ req[w].pc = "update" =>
              \/ Unowned(Row(db, req[w].stack))
              \/ IsOwner(Row(db, req[w].stack), req[w].user)
        /\ (SaveDone(w) /\ req[w].status = "forbidden") =>
              /\ ~Unowned(Row(db, req[w].stack))
              /\ ~IsOwner(Row(db, req[w].stack), req[w].user)
        /\ (SaveDone(w) /\ req[w].before.id # 0 /\ Unowned(req[w].before)) =>
              req[w].status = "ok"

\* A user who is no owner has saved a stack that had neither users nor groups.
C1_Witness ==
    \E w \in Workers :
        /\ SaveDone(w) /\ req[w].status = "ok"
        /\ req[w].before.id # 0 /\ Unowned(req[w].before)
        /\ UserGroups[req[w].user] = {}

\* C2: a save of an existing stack with owners, by a user who is neither in
\* its users nor in one of its groups, ends Forbidden, leaves description,
\* packages, users and groups as they were before the call and publishes
\* nothing.
C2_ForbiddenLeavesStack ==
    \A w \in Workers :
        /\ (/\ SaveDone(w)
            /\ req[w].before.id # 0
            /\ ~Unowned(req[w].before)
            /\ ~IsOwner(req[w].before, req[w].user)) =>
              req[w].status = "forbidden"
        /\ (SaveDone(w) /\ req[w].status = "forbidden") =>
              /\ req[w].before.id # 0
              /\ Stored(w) = req[w].before
              /\ outbox[w] = <<>>

\* A save of a stack with a description and packages was refused.
C2_Witness ==
    \E w \in Workers :
        /\ SaveDone(w) /\ req[w].status = "forbidden"
        /\ req[w].before.description # NoDescription
        /\ req[w].before.packages # {}

\* C3: after a successful save each of packages, users and groups of the
\* stack is exactly the set supplied in the request, the empty set included.
C3_SetsEqualSupplied ==
    \A w \in Workers :
        (SaveDone(w) /\ req[w].status = "ok") =>
            Sets(Row(db, req[w].stack)) =
                [packages |-> req[w].data.packages,
                 users |-> req[w].data.users,
                 groups |-> req[w].data.groups]

\* A successful save supplied no groups for a stack that had a group, and
\* a user the stack did not have.
C3_Witness ==
    \E w \in Workers :
        /\ SaveDone(w) /\ req[w].status = "ok"
        /\ req[w].before.groups # {} /\ req[w].data.groups = {}
        /\ req[w].data.users \ req[w].before.users # {}

\* C4 as stated: a save of a name that has no stack creates exactly one
\* stack of that name, whose users are {acting user} when save returns.
C4_Original ==
    \A w \in Workers :
        (SaveDone(w) /\ req[w].before.id = 0) =>
            /\ req[w].created /\ req[w].status = "ok"
            /\ Cardinality(RowsNamed(db, req[w].name)) = 1
            /\ Stored(w).users = {req[w].user}

\* C4 amended: a save of a name that has no stack creates exactly one stack
\* of that name; its users are {acting user} from its creation until the
\* authorization check has passed, and the users supplied in the request
\* when save returns.
C4_Amended ==
    \A w \in Workers :
        /\ (SaveDone(w) /\ req[w].before.id = 0) =>
              /\ req[w].created /\ req[w].status = "ok"
              /\ Stored(w).users = req[w].data.users
        /\ (req[w].op = "save" /\ req[w].created) =>
              /\ Cardinality(RowsNamed(db, req[w].name)) = 1
              /\ Stored(w).id = req[w].stack
        /\ (req[w].op = "save" /\ req[w].created
                /\ req[w].pc \in {"authorize", "update"}) =>
              Stored(w).users = {req[w].user}

\* A save has created a stack and returned it with users other than the
\* acting user.
C4_Witness ==
    \E w \in Workers :
        /\ SaveDone(w) /\ req[w].created /\ req[w].status = "ok"
        /\ Stored(w).users # {req[w].user}
        /\ Stored(w).users # {}

C6_PublishBeforeRemove ==
    \A w \in Workers :
        req[w].op = "delete" =>
            /\ req[w].pc \in {"validate", "publish"} =>
                  outbox[w] = <<>> /\ Stored(w) = req[w].before
            /\ req[w].pc = "remove" =>
                  /\ outbox[w] = <<Event("stack.delete", req[w].before)>>
                  /\ Stored(w) = req[w].before
                  /\ req[w].before.id # 0
            /\ (req[w].pc = "done" /\ req[w].before.id # 0) =>
                  /\ req[w].status = "ok"
                  /\ outbox[w] = <<Event("stack.delete", req[w].before)>>
                  /\ Stored(w) = NoStack
                  /\ RowsNamed(db, req[w].name) = {}

\* The event of a stack with packages, users and groups is out and the
\* stack is still stored.
C6_Witness ==
    \E w \in Workers :
        /\ req[w].op = "delete" /\ req[w].pc = "remove"
        /\ req[w].before.packages # {}
        /\ req[w].before.users # {}
        /\ req[w].before.groups # {}
        /\ Len(outbox[w]) = 1

\* C7: under every interleaving of concurrent saves at most one stack exists
\* per name.
C7_UniqueName ==
    \A name \in Names : Cardinality(RowsNamed(db, name)) <= 1

\* Two saves of one name both found no stack; one created it, the other
\* failed at its flush.
C7_Witness ==
    \E v \in Workers, w \in Workers :
        /\ v # w
        /\ req[v].name = req[w].name
        /\ req[v].before.id = 0 /\ req[w].before.id = 0
        /\ req[v].created
        /\ req[w].pc = "done" /\ req[w].status = "error"

\* C8: a save that succeeded and is sent once more with the same arguments
\* leaves the stack with the packages, users and groups the first call left.
C8_Idempotent ==
    \A w \in Workers :
        (SaveDone(w) /\ req[w].repeat) => Sets(Stored(w)) = req[w].first

\* The repeated save was refused: the first call had removed the acting user
\* from the owners.
C8_Witness ==
    \E w \in Workers :
        /\ SaveDone(w) /\ req[w].repeat
        /\ req[w].status = "forbidden"

\* The repeated save succeeded and had sets to supply.
C8_WitnessOk ==
    \E w \in Workers :
        /\ SaveDone(w) /\ req[w].repeat
        /\ req[w].status = "ok"
        /\ req[w].data.users # {}

\* C9: total is the number of matches, pages is ceil(total / rows_per_page),
\* the number of rows is max(0, min(rows_per_page, total -
\* rows_per_page * (page - 1))), a page after the last one is empty, and page
\* and rows_per_page are reported as asked.
C9_Pagination ==
    listing.queried =>
        LET rest == listing.total
                      - listing.asked.rows_per_page * (listing.asked.page - 1)
        IN  /\ listing.total = Len(matching)
            /\ listing.pages * listing.rows_per_page >= listing.total
            /\ (listing.pages - 1) * listing.rows_per_page < listing.total
            /\ Len(listing.stacks) =
                  IF rest <= 0 THEN 0
                  ELSE IF rest <= listing.asked.rows_per_page THEN rest
                  ELSE listing.asked.rows_per_page
            /\ listing.asked.page > listing.pages => listing.stacks = <<>>
            /\ listing.page = listing.asked.page
            /\ listing.rows_per_page = listing.asked.rows_per_page

\* 25 matches, 10 rows per page: page 4 of 3 is empty.
C9_Witness ==
    /\ listing.queried
    /\ listing.total = 25 /\ listing.rows_per_page = 10
    /\ listing.page = 4 /\ listing.pages = 3
    /\ listing.stacks = <<>>

\* 25 matches, 10 rows per page: page 3 holds 5 rows.
C9_WitnessLastPage ==
    /\ listing.queried
    /\ listing.total = 25 /\ listing.rows_per_page = 10
    /\ listing.page = 3 /\ Len(listing.stacks) = 5

\* C10: no successful save leaves the stack without users and without
\* groups.
C10_NeverOwnerless ==
    \A w \in Workers :
        (SaveDone(w) /\ req[w].status = "ok") =>
            ~Unowned(Row(db, req[w].stack))

====
